---- MODULE Spec2Model ----
(***************************************************************************)
(* Instance migration transport of lxd (lxd/migrate_instance.go).          *)
(*                                                                         *)
(* One migration session is modelled: a source (migrationSourceWs), a      *)
(* push-mode sink or a pull-mode sink (migrationSink).  Init draws the     *)
(* constructor's arguments and the environment (instance type, running,    *)
(* criu on the PATH, the supplied secrets table, a failing random source); *)
(* the constructor, every step of Do(), the driver callback and the        *)
(* inbound bind tasks are actions.                                         *)
(*                                                                         *)
(* The select of Do() is modelled at the granularity of the Go runtime:    *)
(* a goroutine blocked in select is resumed by the first case that becomes *)
(* ready, so the timer branch is taken exactly when the timer fires while  *)
(* allConnected is not yet done, and the Done branch when allConnected is  *)
(* done.                                                                   *)
(*                                                                         *)
(* migrationFields.disconnect, migrationFields.sendControl,                *)
(* migrationSink.connectWithSecret and the Connect handlers that bind the  *)
(* inbound websockets live in lxd/migrate.go; they are modelled from the   *)
(* specification (sections 4.1 and 4.4).                                   *)
(***************************************************************************)
EXTENDS Naturals, Sequences, FiniteSets

VARIABLES
    kind,           \* "source" | "sink"
    push,           \* migrationSink.push (FALSE for a source)
    instType,       \* inst.Type(): "container" | "vm"
    isRunning,      \* inst.IsRunning()
    stateful,       \* newMigrationSource argument
    argLive,        \* migrationSinkArgs.Live
    argSecrets,     \* migrationSinkArgs.Secrets: role -> secret or NoSecret (absent key)
    criu,           \* exec.LookPath("criu") succeeds
    randErrAt,      \* index of the RandomCryptoString call that fails, 0 = none
    pc,             \* position of the session
    err,            \* error returned by the constructor or by Do(), "nil" on success
    live,           \* migrationFields.live
    secret,         \* controlSecret, fsSecret, stateSecret
    randCalls,      \* number of RandomCryptoString calls made
    probed,         \* exec.LookPath("criu") was consulted
    conn,           \* controlConn, fsConn, stateConn: Nil or Conn
    bound,          \* history: the role's connection was bound or dialed
    closeCalls,     \* history: number of Close() calls on the role's connection
    allConnected,   \* barrier: "none" | "open" | "signalled" | "cancelled"
    signalCount,    \* history: number of times a bind signalled the barrier
    bindState,      \* inbound bind task per role
    deferred,       \* defer disconnect() has been registered in Do()
    dials,          \* history: sequence of connectWithSecret calls
    notifications,  \* history: sequence of control-channel error notifications
    driverCalls,    \* history: sequence of MigrateSend / MigrateReceive invocations
    cbCalls,        \* number of Disconnect callback invocations by the driver
    discCalls       \* number of disconnect() invocations

inputs == <<kind, push, instType, isRunning, stateful, argLive, argSecrets, criu, randErrAt>>
ctor   == <<live, secret, randCalls, probed>>
chans  == <<conn, bound, closeCalls>>
hist   == <<dials, notifications, driverCalls, cbCalls>>
vars   == <<inputs, ctor, chans, hist, pc, err, allConnected, signalCount,
            bindState, deferred, discCalls>>

----------------------------------------------------------------------------
(* Bounds *)

\* Number of times the driver may invoke the Disconnect callback in one transfer.
MaxDriverDisconnects == 2
\* Number of disconnect() invocations in the stand-alone disconnect specification.
MaxDisconnectInvocations == 4

----------------------------------------------------------------------------
(* Values *)

Roles == {"control", "filesystem", "state"}
Nil == "nil"
Conn == "conn"
NoSecret == 0

\* The value the n-th call of shared.RandomCryptoString returns: fresh per call.
RandomCryptoString(n) == n

\* The secret a caller puts into the table for a role (pull mode).
SuppliedSecret(r) == CASE r = "control" -> 11 [] r = "filesystem" -> 12 [] r = "state" -> 13

\* The errors the driver's MigrateSend / MigrateReceive can return.
DriverErrors == {"EIO", "ENOSPC"}

\* fmt.Errorf("Failed migration on source: %w", err)
WrapSource(e) ==
    CASE e = "EIO" -> "Failed migration on source: EIO"
      [] e = "ENOSPC" -> "Failed migration on source: ENOSPC"

\* fmt.Errorf("Failed migration on target: %w", err)
WrapTarget(e) ==
    CASE e = "EIO" -> "Failed migration on target: EIO"
      [] e = "ENOSPC" -> "Failed migration on target: ENOSPC"

\* errors.Unwrap: the error a wrapping error carries, "nil" when it carries none
Unwrap(w) ==
    CASE w \in {"Failed migration on source: EIO", "Failed migration on target: EIO"} -> "EIO"
      [] w \in {"Failed migration on source: ENOSPC", "Failed migration on target: ENOSPC"} -> "ENOSPC"
      [] OTHER -> "nil"

NoConns == [r \in Roles |-> Nil]
NoSecrets == [r \in Roles |-> NoSecret]
Zero == [r \in Roles |-> 0]
NoneBound == [r \in Roles |-> FALSE]
Idle == [r \in Roles |-> "idle"]

----------------------------------------------------------------------------
(* Initial state: the arguments of the constructor and the environment *)

Init ==
    /\ kind \in {"source", "sink"}
    /\ push \in BOOLEAN
    /\ kind = "source" => push = FALSE
    /\ instType \in {"container", "vm"}
    /\ isRunning \in BOOLEAN
    /\ stateful \in BOOLEAN
    /\ kind = "sink" => (stateful = FALSE /\ isRunning = FALSE)
    /\ argLive \in BOOLEAN
    /\ kind = "source" => argLive = FALSE
    /\ argSecrets \in [Roles -> {NoSecret, 11, 12, 13}]
    /\ \A r \in Roles : argSecrets[r] \in {NoSecret, SuppliedSecret(r)}
    /\ kind = "source" => argSecrets = NoSecrets
    /\ criu \in BOOLEAN
    /\ randErrAt \in 0..3
    /\ (kind = "sink" /\ ~push) => randErrAt = 0
    /\ pc = "new"
    /\ err = "nil"
    /\ live = FALSE
    /\ secret = NoSecrets
    /\ randCalls = 0
    /\ probed = FALSE
    /\ conn = NoConns
    /\ bound = NoneBound
    /\ closeCalls = Zero
    /\ allConnected = "none"
    /\ signalCount = 0
    /\ bindState = Idle
    /\ deferred = FALSE
    /\ dials = <<>>
    /\ notifications = <<>>
    /\ driverCalls = <<>>
    /\ cbCalls = 0
    /\ discCalls = 0

----------------------------------------------------------------------------
(* newMigrationSource *)

\* SourceLive that does not ask whether the instance is running.
SourceLiveIgnoresRunning == stateful

\* stateful && inst.IsRunning()
SourceLive == stateful /\ isRunning

\* SourceContainerLive without the test of the instance type.
SourceContainerLiveAnyType == SourceLive

\* the branch that probes for criu and mints the state secret
SourceContainerLive == SourceLive /\ instType = "container"

\* SourceErr without the criu probe.
SourceErrNoProbe ==
    IF randErrAt = 1 THEN "ErrSecretControl"
    ELSE IF randErrAt = 2 THEN "ErrSecretFilesystem"
    ELSE IF SourceContainerLive /\ randErrAt = 3 THEN "ErrSecretState"
    ELSE "nil"

\* the error newMigrationSource returns, "nil" when it returns a session
SourceErr ==
    IF randErrAt = 1 THEN "ErrSecretControl"
    ELSE IF randErrAt = 2 THEN "ErrSecretFilesystem"
    ELSE IF SourceContainerLive /\ ~criu THEN "ErrNoLiveMigrationSource"
    ELSE IF SourceContainerLive /\ randErrAt = 3 THEN "ErrSecretState"
    ELSE "nil"

\* SourceSecrets that mints the state secret for every live workload.
SourceSecretsStateWhenLive ==
    [r \in Roles |->
        CASE r = "control" -> RandomCryptoString(1)
          [] r = "filesystem" -> RandomCryptoString(2)
          [] r = "state" -> IF SourceLive THEN RandomCryptoString(3) ELSE NoSecret]

\* the secrets of the session newMigrationSource returns
SourceSecrets ==
    [r \in Roles |->
        CASE r = "control" -> RandomCryptoString(1)
          [] r = "filesystem" -> RandomCryptoString(2)
          [] r = "state" -> IF SourceContainerLive THEN RandomCryptoString(3) ELSE NoSecret]

NewMigrationSource ==
    /\ pc = "new"
    /\ kind = "source"
    /\ randCalls' = IF randErrAt = 1 THEN 1
                    ELSE IF randErrAt = 2 THEN 2
                    ELSE IF SourceContainerLive /\ criu THEN 3 ELSE 2
    /\ probed' = (randErrAt \notin {1, 2} /\ SourceContainerLive)
    /\ err' = SourceErr
    /\ IF SourceErr = "nil"
       THEN /\ pc' = "constructed"
            /\ live' = SourceLive
            /\ secret' = SourceSecrets
            /\ allConnected' = "open"
       ELSE /\ pc' = "noSession"
            /\ UNCHANGED <<live, secret, allConnected>>
    /\ UNCHANGED <<inputs, chans, hist, signalCount, bindState, deferred, discCalls>>

----------------------------------------------------------------------------
(* newMigrationSink *)

\* SinkLive that ignores the supplied state secret.
SinkLiveIgnoresTable == argLive

\* SinkLive that ignores args.Live in pull mode.
SinkLiveIgnoresArg ==
    IF push THEN argLive ELSE argSecrets["state"] # NoSecret

\* sink.live: args.Live in push mode, (state secret supplied) || args.Live in pull mode
SinkLive ==
    IF push THEN argLive ELSE (argSecrets["state"] # NoSecret \/ argLive)

\* SinkErr that refuses a container whenever criu is missing.
SinkErrProbeAlone ==
    IF push /\ randErrAt = 1 THEN "ErrSecretControl"
    ELSE IF push /\ randErrAt = 2 THEN "ErrSecretFilesystem"
    ELSE IF push /\ argLive /\ randErrAt = 3 THEN "ErrSecretState"
    ELSE IF ~push /\ argSecrets["control"] = NoSecret THEN "ErrMissingControl"
    ELSE IF ~push /\ argSecrets["filesystem"] = NoSecret THEN "ErrMissingFilesystem"
    ELSE IF instType = "container" /\ ~criu THEN "ErrNoLiveMigrationTarget"
    ELSE "nil"

\* SinkErr that also requires the state secret in pull mode.
SinkErrRequiresState ==
    IF push /\ randErrAt = 1 THEN "ErrSecretControl"
    ELSE IF push /\ randErrAt = 2 THEN "ErrSecretFilesystem"
    ELSE IF push /\ argLive /\ randErrAt = 3 THEN "ErrSecretState"
    ELSE IF ~push /\ argSecrets["control"] = NoSecret THEN "ErrMissingControl"
    ELSE IF ~push /\ argSecrets["filesystem"] = NoSecret THEN "ErrMissingFilesystem"
    ELSE IF ~push /\ argSecrets["state"] = NoSecret THEN "ErrMissingState"
    ELSE IF instType = "container" /\ SinkLive /\ ~criu THEN "ErrNoLiveMigrationTarget"
    ELSE "nil"

\* the error newMigrationSink returns, "nil" when it returns a session
SinkErr ==
    IF push /\ randErrAt = 1 THEN "ErrSecretControl"
    ELSE IF push /\ randErrAt = 2 THEN "ErrSecretFilesystem"
    ELSE IF push /\ argLive /\ randErrAt = 3 THEN "ErrSecretState"
    ELSE IF ~push /\ argSecrets["control"] = NoSecret THEN "ErrMissingControl"
    ELSE IF ~push /\ argSecrets["filesystem"] = NoSecret THEN "ErrMissingFilesystem"
    ELSE IF instType = "container" /\ SinkLive /\ ~criu THEN "ErrNoLiveMigrationTarget"
    ELSE "nil"

\* SinkSecrets that takes a supplied secret in push mode when there is one.
SinkSecretsFromTable ==
    IF push
    THEN [r \in Roles |->
            IF argSecrets[r] # NoSecret THEN argSecrets[r]
            ELSE CASE r = "control" -> RandomCryptoString(1)
                   [] r = "filesystem" -> RandomCryptoString(2)
                   [] r = "state" -> IF argLive THEN RandomCryptoString(3) ELSE NoSecret]
    ELSE argSecrets

\* the secrets of the session newMigrationSink returns
SinkSecrets ==
    IF push
    THEN [r \in Roles |->
            CASE r = "control" -> RandomCryptoString(1)
              [] r = "filesystem" -> RandomCryptoString(2)
              [] r = "state" -> IF argLive THEN RandomCryptoString(3) ELSE NoSecret]
    ELSE argSecrets

NewMigrationSink ==
    /\ pc = "new"
    /\ kind = "sink"
    /\ randCalls' = IF ~push THEN 0
                    ELSE IF randErrAt = 1 THEN 1
                    ELSE IF randErrAt = 2 THEN 2
                    ELSE IF argLive THEN 3 ELSE 2
    /\ probed' = /\ instType = "container"
                 /\ SinkErr \in {"nil", "ErrNoLiveMigrationTarget"}
    /\ err' = SinkErr
    /\ IF SinkErr = "nil"
       THEN /\ pc' = "constructed"
            /\ live' = SinkLive
            /\ secret' = SinkSecrets
            /\ allConnected' = IF push THEN "open" ELSE "none"
       ELSE /\ pc' = "noSession"
            /\ UNCHANGED <<live, secret, allConnected>>
    /\ UNCHANGED <<inputs, chans, hist, signalCount, bindState, deferred, discCalls>>

----------------------------------------------------------------------------
(* Channel barrier and channel lifecycle (lxd/migrate.go; modelled from    *)
(* sections 4.1 and 4.4 of the specification)                              *)

\* A role the barrier waits for: control and filesystem, and state when the
\* session is live and the workload is a container.
Required(r) ==
    \/ r \in {"control", "filesystem"}
    \/ r = "state" /\ live /\ instType = "container"

AllRequiredBound(c) == \A r \in Roles : Required(r) => c[r] # Nil

\* The session has a barrier: a source or a push-mode sink.
HasBarrier == kind = "source" \/ push

\* An inbound request presents the secret of role r; the handler starts.
BindStart(r) ==
    /\ pc \in {"constructed", "waiting", "connected", "transferring", "returning", "done"}
    /\ HasBarrier
    /\ secret[r] # NoSecret
    /\ bindState[r] = "idle"
    /\ bindState' = [bindState EXCEPT ![r] = "pending"]
    /\ UNCHANGED <<inputs, ctor, chans, hist, pc, err, allConnected, signalCount,
                   deferred, discCalls>>

\* Bind that signals as soon as control and filesystem are bound.
BindSignalsWithoutState(r) ==
    /\ bindState[r] = "pending"
    /\ allConnected # "cancelled"
    /\ bindState' = [bindState EXCEPT ![r] = "bound"]
    /\ conn' = [conn EXCEPT ![r] = Conn]
    /\ bound' = [bound EXCEPT ![r] = TRUE]
    /\ IF allConnected = "open" /\ conn'["control"] # Nil /\ conn'["filesystem"] # Nil
       THEN /\ allConnected' = "signalled"
            /\ signalCount' = signalCount + 1
       ELSE UNCHANGED <<allConnected, signalCount>>
    /\ UNCHANGED <<inputs, ctor, closeCalls, hist, pc, err, deferred, discCalls>>

\* bind(role, conn): records the connection and, once every required role is
\* bound, signals the barrier.
Bind(r) ==
    /\ bindState[r] = "pending"
    /\ allConnected # "cancelled"
    /\ bindState' = [bindState EXCEPT ![r] = "bound"]
    /\ conn' = [conn EXCEPT ![r] = Conn]
    /\ bound' = [bound EXCEPT ![r] = TRUE]
    /\ IF allConnected = "open" /\ AllRequiredBound(conn')
       THEN /\ allConnected' = "signalled"
            /\ signalCount' = signalCount + 1
       ELSE UNCHANGED <<allConnected, signalCount>>
    /\ UNCHANGED <<inputs, ctor, closeCalls, hist, pc, err, deferred, discCalls>>

\* A bind attempt still pending when the barrier is cancelled is unblocked
\* without recording a connection.
BindCancelled(r) ==
    /\ bindState[r] = "pending"
    /\ allConnected = "cancelled"
    /\ bindState' = [bindState EXCEPT ![r] = "unblocked"]
    /\ UNCHANGED <<inputs, ctor, chans, hist, pc, err, allConnected, signalCount,
                   deferred, discCalls>>

\* disconnect() that closes the connections and leaves the fields set.
DisconnectConnKeepsFields(c) == c

\* disconnect(): the connection fields after the call
DisconnectConn(c) == [r \in Roles |-> Nil]

\* disconnect(): the Close() counts after the call; every non-nil connection
\* is closed
DisconnectCloses(c, n) == [r \in Roles |-> IF c[r] # Nil THEN n[r] + 1 ELSE n[r]]

\* the role's connection is established and no Close() was called on it
IsOpen(r) == bound[r] /\ closeCalls[r] = 0

\* sendControl(err): one notification over the control connection when there
\* is one; the record keeps whether the connection was open and whether the
\* send went through
SendControl(e, ok) ==
    IF conn["control"] # Nil
    THEN Append(notifications, [err |-> e, open |-> IsOpen("control"), ok |-> ok])
    ELSE notifications

\* the error Do() wraps around a failed connectWithSecret of role r
DialErr(r) ==
    CASE r = "control" -> "ErrDialControl"
      [] r = "filesystem" -> "ErrDialFilesystem"
      [] r = "state" -> "ErrDialState"

----------------------------------------------------------------------------
(* migrationSourceWs.Do *)

\* stateConnFunc without the nil check: wraps whatever the field holds.
SourceStateConnFuncNoNilCheck(c) == TRUE

\* stateConnFunc: TRUE when it returns a stream, FALSE when it returns nil
SourceStateConnFunc(c) == c["state"] # Nil

\* filesystemConnFunc: TRUE when it returns a stream, FALSE when it returns nil
SourceFilesystemConnFunc(c) == c["filesystem"] # Nil

\* Do() is entered and blocks in the select.
SourceDo ==
    /\ pc = "constructed"
    /\ kind = "source"
    /\ pc' = "waiting"
    /\ UNCHANGED <<inputs, ctor, chans, hist, err, allConnected, signalCount,
                   bindState, deferred, discCalls>>

\* SourceTimeout without its return statement: the timer branch falls through.
SourceTimeoutFallsThrough ==
    /\ pc = "waiting"
    /\ kind = "source"
    /\ allConnected = "open"
    /\ allConnected' = "cancelled"
    /\ deferred' = TRUE
    /\ pc' = "connected"
    /\ UNCHANGED <<inputs, ctor, chans, hist, err, signalCount, bindState, discCalls>>

\* The select of the source without its timer case.
SourceNoTimer ==
    /\ pc = "waiting"
    /\ kind = "source"
    /\ allConnected = "open"
    /\ FALSE
    /\ UNCHANGED vars

\* case <-time.After(10s): cancel the barrier and return the timeout error.
SourceTimeout ==
    /\ pc = "waiting"
    /\ kind = "source"
    /\ allConnected = "open"
    /\ allConnected' = "cancelled"
    /\ err' = "ErrTimeout"
    /\ pc' = "returning"
    /\ UNCHANGED <<inputs, ctor, chans, hist, signalCount, bindState, deferred, discCalls>>

\* case <-s.allConnected.Done(): go on and register defer s.disconnect().
SourceAllConnected ==
    /\ pc = "waiting"
    /\ kind = "source"
    /\ allConnected = "signalled"
    /\ deferred' = TRUE
    /\ pc' = "connected"
    /\ UNCHANGED <<inputs, ctor, chans, hist, err, allConnected, signalCount,
                   bindState, discCalls>>

\* s.instance.MigrateSend(args) is invoked.
SourceMigrateSend ==
    /\ pc = "connected"
    /\ kind = "source"
    /\ driverCalls' = Append(driverCalls,
            [fn |-> "MigrateSend",
             Live |-> live,
             StateConn |-> SourceStateConnFunc(conn),
             FilesystemConn |-> SourceFilesystemConnFunc(conn),
             ret |-> "pending"])
    /\ pc' = "transferring"
    /\ UNCHANGED <<inputs, ctor, chans, dials, notifications, cbCalls, err,
                   allConnected, signalCount, bindState, deferred, discCalls>>

\* SourceDisconnectCallback that forgets the state connection.
SourceDisconnectCallbackFsOnly ==
    /\ pc = "transferring"
    /\ kind = "source"
    /\ cbCalls < MaxDriverDisconnects
    /\ cbCalls' = cbCalls + 1
    /\ closeCalls' = [r \in Roles |->
            IF r = "filesystem" /\ conn[r] # Nil
            THEN closeCalls[r] + 1 ELSE closeCalls[r]]
    /\ UNCHANGED <<inputs, ctor, conn, bound, dials, notifications, driverCalls, pc, err,
                   allConnected, signalCount, bindState, deferred, discCalls>>

\* The driver invokes MigrateArgs.Disconnect: Close() on fsConn and stateConn
\* when they are not nil; the fields are left as they are.
SourceDisconnectCallback ==
    /\ pc = "transferring"
    /\ kind = "source"
    /\ cbCalls < MaxDriverDisconnects
    /\ cbCalls' = cbCalls + 1
    /\ closeCalls' = [r \in Roles |->
            IF r \in {"filesystem", "state"} /\ conn[r] # Nil
            THEN closeCalls[r] + 1 ELSE closeCalls[r]]
    /\ UNCHANGED <<inputs, ctor, conn, bound, dials, notifications, driverCalls, pc, err,
                   allConnected, signalCount, bindState, deferred, discCalls>>

\* MigrateSend returns; its error is wrapped and returned by Do().
SourceMigrateSendReturn ==
    /\ pc = "transferring"
    /\ kind = "source"
    /\ \E e \in DriverErrors \cup {"nil"} :
          /\ driverCalls' = [driverCalls EXCEPT ![Len(driverCalls)].ret = e]
          /\ err' = IF e # "nil" THEN WrapSource(e) ELSE "nil"
    /\ pc' = "returning"
    /\ UNCHANGED <<inputs, ctor, chans, dials, notifications, cbCalls, allConnected,
                   signalCount, bindState, deferred, discCalls>>

\* Do() returns: the deferred disconnect() runs when it was registered.
SourceReturn ==
    /\ pc = "returning"
    /\ kind = "source"
    /\ IF deferred
       THEN /\ conn' = DisconnectConn(conn)
            /\ closeCalls' = DisconnectCloses(conn, closeCalls)
            /\ discCalls' = discCalls + 1
       ELSE UNCHANGED <<conn, closeCalls, discCalls>>
    /\ pc' = "done"
    /\ UNCHANGED <<inputs, ctor, bound, hist, err, allConnected, signalCount,
                   bindState, deferred>>

----------------------------------------------------------------------------
(* migrationSink.Do *)

\* stateConnFunc: TRUE when it returns a stream, FALSE when it returns nil
SinkStateConnFunc(c) == c["state"] # Nil

\* filesystemConnFunc: TRUE when it returns a stream, FALSE when it returns nil
SinkFilesystemConnFunc(c) == c["filesystem"] # Nil

\* SinkDo that waits on the barrier in pull mode too.
SinkDoAlwaysWaits ==
    /\ pc = "constructed"
    /\ kind = "sink"
    /\ pc' = "waiting"
    /\ UNCHANGED <<inputs, ctor, chans, hist, err, allConnected, signalCount,
                   bindState, deferred, discCalls>>

\* Do() is entered: a push-mode sink blocks in the select, a pull-mode sink
\* goes on to dial the control channel.
SinkDo ==
    /\ pc = "constructed"
    /\ kind = "sink"
    /\ pc' = IF push THEN "waiting" ELSE "dialControl"
    /\ UNCHANGED <<inputs, ctor, chans, hist, err, allConnected, signalCount,
                   bindState, deferred, discCalls>>

\* SinkTimeout that returns the timeout error without c.allConnected.Cancel().
SinkTimeoutNoCancel ==
    /\ pc = "waiting"
    /\ kind = "sink"
    /\ push
    /\ allConnected = "open"
    /\ err' = "ErrTimeout"
    /\ pc' = "returning"
    /\ UNCHANGED <<inputs, ctor, chans, hist, allConnected, signalCount, bindState,
                   deferred, discCalls>>

\* case <-time.After(10s): cancel the barrier and return the timeout error.
SinkTimeout ==
    /\ pc = "waiting"
    /\ kind = "sink"
    /\ push
    /\ allConnected = "open"
    /\ allConnected' = "cancelled"
    /\ err' = "ErrTimeout"
    /\ pc' = "returning"
    /\ UNCHANGED <<inputs, ctor, chans, hist, signalCount, bindState, deferred, discCalls>>

\* case <-c.allConnected.Done(): go on and register defer c.disconnect().
SinkAllConnected ==
    /\ pc = "waiting"
    /\ kind = "sink"
    /\ push
    /\ allConnected = "signalled"
    /\ deferred' = TRUE
    /\ pc' = "connected"
    /\ UNCHANGED <<inputs, ctor, chans, hist, err, allConnected, signalCount,
                   bindState, discCalls>>

\* SinkDialControl without the return on a failed dial.
SinkDialControlNoReturn ==
    /\ pc = "dialControl"
    /\ kind = "sink"
    /\ \E ok \in BOOLEAN :
          /\ dials' = Append(dials, [role |-> "control", ok |-> ok])
          /\ IF ok
             THEN /\ conn' = [conn EXCEPT !["control"] = Conn]
                  /\ bound' = [bound EXCEPT !["control"] = TRUE]
                  /\ UNCHANGED err
             ELSE /\ conn' = [conn EXCEPT !["control"] = Nil]
                  /\ err' = DialErr("control")
                  /\ UNCHANGED bound
          /\ deferred' = TRUE
          /\ pc' = "dialFilesystem"
    /\ UNCHANGED <<inputs, ctor, closeCalls, notifications, driverCalls, cbCalls,
                   allConnected, signalCount, bindState, discCalls>>

\* SinkDialControl without defer c.disconnect().
SinkDialControlNoDefer ==
    /\ pc = "dialControl"
    /\ kind = "sink"
    /\ \E ok \in BOOLEAN :
          /\ dials' = Append(dials, [role |-> "control", ok |-> ok])
          /\ IF ok
             THEN /\ conn' = [conn EXCEPT !["control"] = Conn]
                  /\ bound' = [bound EXCEPT !["control"] = TRUE]
                  /\ pc' = "dialFilesystem"
                  /\ UNCHANGED err
             ELSE /\ conn' = [conn EXCEPT !["control"] = Nil]
                  /\ err' = DialErr("control")
                  /\ pc' = "returning"
                  /\ UNCHANGED bound
    /\ UNCHANGED <<inputs, ctor, closeCalls, notifications, driverCalls, cbCalls,
                   allConnected, signalCount, bindState, deferred, discCalls>>

\* c.controlConn, err = c.connectWithSecret(c.controlSecret); on failure
\* return, on success register defer c.disconnect().
SinkDialControl ==
    /\ pc = "dialControl"
    /\ kind = "sink"
    /\ \E ok \in BOOLEAN :
          /\ dials' = Append(dials, [role |-> "control", ok |-> ok])
          /\ IF ok
             THEN /\ conn' = [conn EXCEPT !["control"] = Conn]
                  /\ bound' = [bound EXCEPT !["control"] = TRUE]
                  /\ deferred' = TRUE
                  /\ pc' = "dialFilesystem"
                  /\ UNCHANGED err
             ELSE /\ conn' = [conn EXCEPT !["control"] = Nil]
                  /\ err' = DialErr("control")
                  /\ pc' = "returning"
                  /\ UNCHANGED <<bound, deferred>>
    /\ UNCHANGED <<inputs, ctor, closeCalls, notifications, driverCalls, cbCalls,
                   allConnected, signalCount, bindState, discCalls>>

\* SinkDialFilesystem that goes on after a failed dial instead of aborting.
SinkDialFilesystemNoAbort ==
    /\ pc = "dialFilesystem"
    /\ kind = "sink"
    /\ \E ok \in BOOLEAN :
          /\ dials' = Append(dials, [role |-> "filesystem", ok |-> ok])
          /\ IF ok
             THEN /\ conn' = [conn EXCEPT !["filesystem"] = Conn]
                  /\ bound' = [bound EXCEPT !["filesystem"] = TRUE]
                  /\ UNCHANGED err
             ELSE /\ conn' = [conn EXCEPT !["filesystem"] = Nil]
                  /\ err' = DialErr("filesystem")
                  /\ UNCHANGED bound
          /\ pc' = IF live /\ instType = "container" THEN "dialState" ELSE "connected"
    /\ UNCHANGED <<inputs, ctor, closeCalls, notifications, driverCalls, cbCalls,
                   allConnected, signalCount, bindState, deferred, discCalls>>

\* SinkDialFilesystem that goes on to the state dial for every live session.
SinkDialFilesystemStateWhenLive ==
    /\ pc = "dialFilesystem"
    /\ kind = "sink"
    /\ \E ok \in BOOLEAN :
          /\ dials' = Append(dials, [role |-> "filesystem", ok |-> ok])
          /\ IF ok
             THEN /\ conn' = [conn EXCEPT !["filesystem"] = Conn]
                  /\ bound' = [bound EXCEPT !["filesystem"] = TRUE]
                  /\ pc' = IF live THEN "dialState" ELSE "connected"
                  /\ UNCHANGED err
             ELSE /\ conn' = [conn EXCEPT !["filesystem"] = Nil]
                  /\ err' = DialErr("filesystem")
                  /\ pc' = "sendControl"
                  /\ UNCHANGED bound
    /\ UNCHANGED <<inputs, ctor, closeCalls, notifications, driverCalls, cbCalls,
                   allConnected, signalCount, bindState, deferred, discCalls>>

\* c.fsConn, err = c.connectWithSecret(c.fsSecret); on failure go on to
\* c.sendControl(err).
SinkDialFilesystem ==
    /\ pc = "dialFilesystem"
    /\ kind = "sink"
    /\ \E ok \in BOOLEAN :
          /\ dials' = Append(dials, [role |-> "filesystem", ok |-> ok])
          /\ IF ok
             THEN /\ conn' = [conn EXCEPT !["filesystem"] = Conn]
                  /\ bound' = [bound EXCEPT !["filesystem"] = TRUE]
                  /\ pc' = IF live /\ instType = "container"
                           THEN "dialState" ELSE "connected"
                  /\ UNCHANGED err
             ELSE /\ conn' = [conn EXCEPT !["filesystem"] = Nil]
                  /\ err' = DialErr("filesystem")
                  /\ pc' = "sendControl"
                  /\ UNCHANGED bound
    /\ UNCHANGED <<inputs, ctor, closeCalls, notifications, driverCalls, cbCalls,
                   allConnected, signalCount, bindState, deferred, discCalls>>

\* SinkDialState that goes on to MigrateReceive after a failed dial.
SinkDialStateNoAbort ==
    /\ pc = "dialState"
    /\ kind = "sink"
    /\ \E ok \in BOOLEAN :
          /\ dials' = Append(dials, [role |-> "state", ok |-> ok])
          /\ IF ok
             THEN /\ conn' = [conn EXCEPT !["state"] = Conn]
                  /\ bound' = [bound EXCEPT !["state"] = TRUE]
                  /\ UNCHANGED err
             ELSE /\ conn' = [conn EXCEPT !["state"] = Nil]
                  /\ err' = DialErr("state")
                  /\ UNCHANGED bound
          /\ pc' = "connected"
    /\ UNCHANGED <<inputs, ctor, closeCalls, notifications, driverCalls, cbCalls,
                   allConnected, signalCount, bindState, deferred, discCalls>>

\* c.stateConn, err = c.connectWithSecret(c.stateSecret), reached only when
\* c.live and the instance is a container.
SinkDialState ==
    /\ pc = "dialState"
    /\ kind = "sink"
    /\ \E ok \in BOOLEAN :
          /\ dials' = Append(dials, [role |-> "state", ok |-> ok])
          /\ IF ok
             THEN /\ conn' = [conn EXCEPT !["state"] = Conn]
                  /\ bound' = [bound EXCEPT !["state"] = TRUE]
                  /\ pc' = "connected"
                  /\ UNCHANGED err
             ELSE /\ conn' = [conn EXCEPT !["state"] = Nil]
                  /\ err' = DialErr("state")
                  /\ pc' = "sendControl"
                  /\ UNCHANGED bound
    /\ UNCHANGED <<inputs, ctor, closeCalls, notifications, driverCalls, cbCalls,
                   allConnected, signalCount, bindState, deferred, discCalls>>

\* SinkSendControl that tears the channels down before it notifies the peer.
SinkSendControlAfterDisconnect ==
    /\ pc = "sendControl"
    /\ kind = "sink"
    /\ conn' = DisconnectConn(conn)
    /\ closeCalls' = DisconnectCloses(conn, closeCalls)
    /\ discCalls' = discCalls + 1
    /\ notifications' = notifications
    /\ pc' = "returning"
    /\ UNCHANGED <<inputs, ctor, bound, dials, driverCalls, cbCalls, err,
                   allConnected, signalCount, bindState, deferred>>

\* SinkSendControl that returns the error of a failed notification.
SinkSendControlMasksError ==
    /\ pc = "sendControl"
    /\ kind = "sink"
    /\ \E ok \in BOOLEAN :
          /\ notifications' = SendControl(err, ok)
          /\ err' = IF ok THEN err ELSE "ErrSendControl"
    /\ pc' = "returning"
    /\ UNCHANGED <<inputs, ctor, chans, dials, driverCalls, cbCalls,
                   allConnected, signalCount, bindState, deferred, discCalls>>

\* c.sendControl(err); return err: the outcome of the send is dropped.
SinkSendControl ==
    /\ pc = "sendControl"
    /\ kind = "sink"
    /\ \E ok \in BOOLEAN :
          notifications' = SendControl(err, ok)
    /\ pc' = "returning"
    /\ UNCHANGED <<inputs, ctor, chans, dials, driverCalls, cbCalls, err,
                   allConnected, signalCount, bindState, deferred, discCalls>>

\* c.instance.MigrateReceive(args) is invoked.
SinkMigrateReceive ==
    /\ pc = "connected"
    /\ kind = "sink"
    /\ driverCalls' = Append(driverCalls,
            [fn |-> "MigrateReceive",
             Live |-> live,
             StateConn |-> SinkStateConnFunc(conn),
             FilesystemConn |-> SinkFilesystemConnFunc(conn),
             ret |-> "pending"])
    /\ pc' = "transferring"
    /\ UNCHANGED <<inputs, ctor, chans, dials, notifications, cbCalls, err,
                   allConnected, signalCount, bindState, deferred, discCalls>>

\* The driver invokes MigrateArgs.Disconnect: Close() on fsConn and stateConn
\* when they are not nil; the fields are left as they are.
SinkDisconnectCallback ==
    /\ pc = "transferring"
    /\ kind = "sink"
    /\ cbCalls < MaxDriverDisconnects
    /\ cbCalls' = cbCalls + 1
    /\ closeCalls' = [r \in Roles |->
            IF r \in {"filesystem", "state"} /\ conn[r] # Nil
            THEN closeCalls[r] + 1 ELSE closeCalls[r]]
    /\ UNCHANGED <<inputs, ctor, conn, bound, dials, notifications, driverCalls, pc, err,
                   allConnected, signalCount, bindState, deferred, discCalls>>

\* SinkMigrateReceiveReturn that logs the driver's error and returns nil.
SinkMigrateReceiveReturnDropsError ==
    /\ pc = "transferring"
    /\ kind = "sink"
    /\ \E e \in DriverErrors \cup {"nil"} :
          driverCalls' = [driverCalls EXCEPT ![Len(driverCalls)].ret = e]
    /\ err' = "nil"
    /\ pc' = "returning"
    /\ UNCHANGED <<inputs, ctor, chans, dials, notifications, cbCalls, allConnected,
                   signalCount, bindState, deferred, discCalls>>

\* MigrateReceive returns; its error is wrapped and returned by Do().
SinkMigrateReceiveReturn ==
    /\ pc = "transferring"
    /\ kind = "sink"
    /\ \E e \in DriverErrors \cup {"nil"} :
          /\ driverCalls' = [driverCalls EXCEPT ![Len(driverCalls)].ret = e]
          /\ err' = IF e # "nil" THEN WrapTarget(e) ELSE "nil"
    /\ pc' = "returning"
    /\ UNCHANGED <<inputs, ctor, chans, dials, notifications, cbCalls, allConnected,
                   signalCount, bindState, deferred, discCalls>>

\* Do() returns: the deferred disconnect() runs when it was registered.
SinkReturn ==
    /\ pc = "returning"
    /\ kind = "sink"
    /\ IF deferred
       THEN /\ conn' = DisconnectConn(conn)
            /\ closeCalls' = DisconnectCloses(conn, closeCalls)
            /\ discCalls' = discCalls + 1
       ELSE UNCHANGED <<conn, closeCalls, discCalls>>
    /\ pc' = "done"
    /\ UNCHANGED <<inputs, ctor, bound, hist, err, allConnected, signalCount,
                   bindState, deferred>>

----------------------------------------------------------------------------
(* The session *)

Next ==
    \/ NewMigrationSource
    \/ NewMigrationSink
    \/ \E r \in Roles : BindStart(r)
    \/ \E r \in Roles : Bind(r)
    \/ \E r \in Roles : BindCancelled(r)
    \/ SourceDo
    \/ SourceTimeout
    \/ SourceAllConnected
    \/ SourceMigrateSend
    \/ SourceDisconnectCallback
    \/ SourceMigrateSendReturn
    \/ SourceReturn
    \/ SinkDo
    \/ SinkTimeout
    \/ SinkAllConnected
    \/ SinkDialControl
    \/ SinkDialFilesystem
    \/ SinkDialState
    \/ SinkSendControl
    \/ SinkMigrateReceive
    \/ SinkDisconnectCallback
    \/ SinkMigrateReceiveReturn
    \/ SinkReturn

Spec == Init /\ [][Next]_vars

TypeOK ==
    /\ pc \in {"new", "noSession", "constructed", "waiting", "dialControl",
               "dialFilesystem", "dialState", "sendControl", "connected",
               "transferring", "returning", "done"}
    /\ conn \in [Roles -> {Nil, Conn}]
    /\ bound \in [Roles -> BOOLEAN]
    /\ allConnected \in {"none", "open", "signalled", "cancelled"}
    /\ Len(driverCalls) <= 1

----------------------------------------------------------------------------
(* disconnect() on its own: any subset of the channels bound, any number   *)
(* of invocations                                                          *)

InitDisc ==
    /\ kind \in {"source", "sink"}
    /\ push \in BOOLEAN
    /\ kind = "source" => push = FALSE
    /\ instType \in {"container", "vm"}
    /\ isRunning = FALSE
    /\ stateful = FALSE
    /\ argLive = FALSE
    /\ argSecrets = NoSecrets
    /\ criu = TRUE
    /\ randErrAt = 0
    /\ pc = "disconnect"
    /\ err = "nil"
    /\ live = FALSE
    /\ secret = NoSecrets
    /\ randCalls = 0
    /\ probed = FALSE
    /\ conn \in [Roles -> {Nil, Conn}]
    /\ bound = [r \in Roles |-> conn[r] # Nil]
    /\ closeCalls = Zero
    /\ allConnected = "none"
    /\ signalCount = 0
    /\ bindState = Idle
    /\ deferred = FALSE
    /\ dials = <<>>
    /\ notifications = <<>>
    /\ driverCalls = <<>>
    /\ cbCalls = 0
    /\ discCalls = 0

\* one more invocation of disconnect()
Disconnect ==
    /\ pc = "disconnect"
    /\ discCalls < MaxDisconnectInvocations
    /\ conn' = DisconnectConn(conn)
    /\ closeCalls' = DisconnectCloses(conn, closeCalls)
    /\ discCalls' = discCalls + 1
    /\ UNCHANGED <<inputs, ctor, bound, hist, pc, err, allConnected, signalCount,
                   bindState, deferred>>

NextDisc == Disconnect

SpecDisc == InitDisc /\ [][NextDisc]_vars

----------------------------------------------------------------------------
(* Claims *)

PullSink == kind = "sink" /\ ~push

\* C1: source and push-mode sink: when the timer fires with fewer than the
\* required channels bound, Do() returns the timeout error, and the driver
\* callback is never invoked in that run.
C1_TimeoutNeverInvokesDriver ==
    (HasBarrier /\ allConnected = "cancelled") =>
        /\ pc \in {"returning", "done"}
        /\ err = "ErrTimeout"
        /\ driverCalls = <<>>
        /\ \E r \in Roles : Required(r) /\ ~bound[r]

\* C1 witness: Do() has returned after the timer fired with control bound
\* and filesystem not bound.
C1_Witness ==
    /\ pc = "done"
    /\ allConnected = "cancelled"
    /\ bound["control"]
    /\ ~bound["filesystem"]

\* C2: source and push-mode sink: once all required channels are bound, Do()
\* invokes the driver callback exactly once (never before the barrier is
\* signalled, never twice), and at the call each accessor returns a stream
\* exactly when that channel is bound.
C2_CallState ==
    HasBarrier =>
        /\ Len(driverCalls) <= 1
        /\ (Len(driverCalls) = 1) <=>
              (allConnected = "signalled" /\ pc \in {"transferring", "returning", "done"})

C2_CallStep ==
    (HasBarrier /\ Len(driverCalls') > Len(driverCalls)) =>
        LET a == driverCalls'[Len(driverCalls')] IN
            /\ a.FilesystemConn = bound'["filesystem"]
            /\ a.StateConn = bound'["state"]
            /\ AllRequiredBound(conn)

C2_DriverInvokedOnceWithBoundAccessors == []C2_CallState /\ [][C2_CallStep]_vars

\* C2 witness: a push-mode sink is transferring, called with a filesystem
\* stream and without a state stream.
C2_Witness ==
    /\ kind = "sink"
    /\ push
    /\ pc = "transferring"
    /\ Len(driverCalls) = 1
    /\ driverCalls[1].FilesystemConn
    /\ ~driverCalls[1].StateConn

\* C3: source: when Do() has returned (after a timeout, a driver error or a
\* success), every connection that was bound has been closed.
C3_SourceTeardownOnEveryExit ==
    (kind = "source" /\ pc = "done") =>
        \A r \in Roles : bound[r] => closeCalls[r] >= 1

\* C4: push-mode sink: when Do() has returned the timeout error, every
\* channel that did bind has been closed.
C4_PushSinkTimeoutClosesBound ==
    (kind = "sink" /\ push /\ pc = "done" /\ allConnected = "cancelled") =>
        /\ err = "ErrTimeout"
        /\ \A r \in Roles : bound[r] => closeCalls[r] >= 1

\* C5: pull-mode sink: the dials are control, filesystem, state in that
\* order, a dial is attempted only after every earlier dial succeeded, and
\* after a failed dial MigrateReceive is never invoked.
DialOrder == <<"control", "filesystem", "state">>

C5_PullDialOrder ==
    PullSink =>
        /\ Len(dials) <= 3
        /\ \A i \in 1..Len(dials) :
              /\ dials[i].role = DialOrder[i]
              /\ i < Len(dials) => dials[i].ok
        /\ (\E i \in 1..Len(dials) : ~dials[i].ok) =>
              /\ driverCalls = <<>>
              /\ pc \in {"sendControl", "returning", "done"}
        /\ driverCalls # <<>> => Len(dials) >= 2

\* C5 witness: Do() has returned after the filesystem dial failed.
C5_Witness ==
    /\ PullSink
    /\ pc = "done"
    /\ Len(dials) = 2
    /\ dials[1].ok
    /\ ~dials[2].ok

\* C6: pull-mode sink: after a failed filesystem or state dial exactly one
\* error notification has been sent over the control channel, the control
\* connection was open when it was sent, and Do() returns the dial error.
C6_PullNotifiesOnceWhileOpen ==
    PullSink =>
        /\ Len(notifications) <= 1
        /\ (pc \in {"returning", "done"} /\ Len(dials) >= 2 /\ ~dials[Len(dials)].ok) =>
              /\ Len(notifications) = 1
              /\ notifications[1].open
              /\ notifications[1].err = DialErr(dials[Len(dials)].role)
              /\ err = DialErr(dials[Len(dials)].role)

\* C6 witness: Do() has returned the state dial error and one notification
\* was sent.
C6_Witness ==
    /\ PullSink
    /\ pc = "done"
    /\ err = "ErrDialState"
    /\ Len(notifications) = 1

\* C7: pull-mode sink: after a failed control dial Do() returns that error
\* at once: nothing is notified, nothing else is dialed, the driver is not
\* invoked and no connection is open.
C7_PullControlDialFailure ==
    (PullSink /\ Len(dials) >= 1 /\ ~dials[1].ok) =>
        /\ pc \in {"returning", "done"}
        /\ err = "ErrDialControl"
        /\ Len(dials) = 1
        /\ notifications = <<>>
        /\ driverCalls = <<>>
        /\ \A r \in Roles : conn[r] = Nil /\ ~bound[r]

\* C7 witness: Do() has returned the control dial error.
C7_Witness ==
    /\ PullSink
    /\ pc = "done"
    /\ err = "ErrDialControl"
    /\ Len(dials) = 1

\* C8: pull-mode sink: whether the notification went through or not, Do()
\* returns the dial error that was notified, and the teardown has run.
C8_NotificationNeverMasksError ==
    (PullSink /\ pc = "done" /\ Len(notifications) >= 1) =>
        /\ err = notifications[1].err
        /\ err \in {"ErrDialFilesystem", "ErrDialState"}
        /\ discCalls = 1
        /\ \A r \in Roles : conn[r] = Nil

\* C8 witness: Do() has returned the filesystem dial error after a
\* notification that failed.
C8_Witness ==
    /\ PullSink
    /\ pc = "done"
    /\ Len(notifications) = 1
    /\ ~notifications[1].ok
    /\ err = "ErrDialFilesystem"

\* C9: pull-mode sink: once the control dial succeeded, when Do() has
\* returned every connection that was dialed successfully has been closed.
C9_PullTeardownAfterControl ==
    (PullSink /\ pc = "done" /\ Len(dials) >= 1 /\ dials[1].ok) =>
        /\ bound["control"]
        /\ \A r \in Roles : bound[r] => (closeCalls[r] >= 1 /\ conn[r] = Nil)

\* C9 witness: Do() has returned after the driver was invoked with the three
\* channels dialed, and the three are closed.
C9_Witness ==
    /\ PullSink
    /\ pc = "done"
    /\ Len(driverCalls) = 1
    /\ \A r \in Roles : bound[r] /\ closeCalls[r] >= 1

\* C10: disconnect() is idempotent: after any number of invocations every
\* connection that was bound has been closed exactly once (none before the
\* first invocation), and a channel that was not bound is never closed.
C10_DisconnectIdempotent ==
    pc = "disconnect" =>
        \A r \in Roles :
            closeCalls[r] = IF bound[r] /\ discCalls >= 1 THEN 1 ELSE 0

\* C10 witness: disconnect() was invoked three times with control and state
\* bound and filesystem not bound.
C10_Witness ==
    /\ pc = "disconnect"
    /\ discCalls = 3
    /\ bound["control"]
    /\ ~bound["filesystem"]
    /\ bound["state"]
    /\ closeCalls["control"] = 1

\* C11: over one whole session every bound connection is closed exactly
\* once when the session has terminated, whatever the outcome, also when the
\* driver invoked the Disconnect callback during the transfer.
C11_EachBoundClosedExactlyOnce ==
    pc = "done" => \A r \in Roles : bound[r] => closeCalls[r] = 1

\* C12: after the driver invoked the Disconnect callback, every bound
\* connection among control, filesystem and state is closed.
C12_CallbackStep ==
    cbCalls' > cbCalls =>
        \A r \in Roles : conn[r] # Nil => closeCalls'[r] >= 1

C12_CallbackClosesAllBound == [][C12_CallbackStep]_vars

\* C12 as amended: the Disconnect callback closes the filesystem and the
\* state connection when they are bound and does not touch the control
\* connection, which stays open until disconnect().
C12_AmendedStep ==
    cbCalls' > cbCalls =>
        /\ \A r \in {"filesystem", "state"} : conn[r] # Nil => closeCalls'[r] >= 1
        /\ closeCalls'["control"] = closeCalls["control"]
        /\ conn' = conn

C12_CallbackClosesFsAndState == [][C12_AmendedStep]_vars

\* C12 witness: the callback ran during a transfer with the three channels
\* bound; filesystem and state are closed, control is still open.
C12_Witness ==
    /\ pc = "transferring"
    /\ cbCalls >= 1
    /\ \A r \in Roles : conn[r] # Nil
    /\ closeCalls["filesystem"] >= 1
    /\ closeCalls["state"] >= 1
    /\ closeCalls["control"] = 0

\* a session was produced by the constructor
Session == pc \notin {"new", "noSession"}

\* the constructor has returned
Constructed == pc # "new"

\* an error the constructor returns before it reaches the criu probe:
\* a failed RandomCryptoString, or a secret missing from the table
EarlierConstructionError ==
    IF kind = "source" THEN randErrAt \in {1, 2}
    ELSE IF push THEN randErrAt \in {1, 2} \/ (argLive /\ randErrAt = 3)
    ELSE argSecrets["control"] = NoSecret \/ argSecrets["filesystem"] = NoSecret

\* the session would be live on a container and criu is not on the PATH
LiveContainerNoCriu ==
    /\ instType = "container"
    /\ ~criu
    /\ IF kind = "source" THEN stateful /\ isRunning
       ELSE IF push THEN argLive
       ELSE argSecrets["state"] # NoSecret \/ argLive

\* C13: whenever the session would be live on a container and the criu
\* probe fails, construction fails with the capability-missing error
\* (ErrNoLiveMigrationSource for a source, ErrNoLiveMigrationTarget for a
\* sink in push and pull mode) and no session is produced.  The probe is
\* reached in every such construction that did not fail earlier on a secret.
C13_CapabilityMissing ==
    (Constructed /\ LiveContainerNoCriu) =>
        /\ pc = "noSession"
        /\ probed <=> ~EarlierConstructionError
        /\ probed =>
              err = IF kind = "source" THEN "ErrNoLiveMigrationSource"
                    ELSE "ErrNoLiveMigrationTarget"

\* C13 witness: a pull-mode sink that is live only through the supplied
\* state secret was refused for want of criu.
C13_Witness ==
    /\ PullSink
    /\ pc = "noSession"
    /\ ~argLive
    /\ argSecrets["state"] # NoSecret
    /\ err = "ErrNoLiveMigrationTarget"

\* the state channel exists: a state secret is held or a state connection
\* is bound
StateChannelExists == secret["state"] # NoSecret \/ bound["state"]

\* C14: in every reachable state of every session the state channel exists
\* if and only if the session is live and the workload is a container.
C14_StateChannelIffLiveContainer ==
    Session => (StateChannelExists <=> (live /\ instType = "container"))

\* C14 as amended: the state channel exists only if the session is live; for
\* a source it exists if and only if the session is live and the workload is
\* a container; a push-mode sink holds a state secret if and only if it is
\* live, whatever the workload type; a pull-mode sink holds the supplied
\* state secret, if any, and binds a state connection only on a container.
C14_StateChannelOnlyIfLive ==
    Session =>
        /\ StateChannelExists => live
        /\ kind = "source" => (StateChannelExists <=> (live /\ instType = "container"))
        /\ (kind = "sink" /\ push) => (secret["state"] # NoSecret <=> live)
        /\ PullSink => /\ secret["state"] = argSecrets["state"]
                       /\ bound["state"] => instType = "container"

\* C14 witness: a push-mode sink for a live virtual machine has bound a
\* state connection.
C14_Witness ==
    /\ kind = "sink"
    /\ push
    /\ instType = "vm"
    /\ live
    /\ bound["state"]

\* C15: a session returned by newMigrationSource holds freshly minted control
\* and filesystem secrets, and holds a state secret exactly when stateful
\* migration was requested, the workload is running and it is a container.
C15_SourceSecrets ==
    (kind = "source" /\ Session) =>
        /\ secret["control"] # NoSecret
        /\ secret["filesystem"] # NoSecret
        /\ secret["control"] # secret["filesystem"]
        /\ secret["state"] # NoSecret <=>
              (stateful /\ isRunning /\ instType = "container")
        /\ secret["state"] \notin {secret["control"], secret["filesystem"]}
        /\ randCalls = Cardinality({r \in Roles : secret[r] # NoSecret})

\* C15 witness: a source session for a running container with stateful
\* migration holds three secrets.
C15_Witness ==
    /\ kind = "source"
    /\ pc = "constructed"
    /\ live
    /\ \A r \in Roles : secret[r] # NoSecret

\* the values RandomCryptoString can have returned in one construction
Minted == {RandomCryptoString(n) : n \in 1..3}

\* C16: a session returned by newMigrationSink in push mode holds fresh,
\* pairwise distinct control and filesystem secrets, and holds a state secret
\* if and only if the live argument is true; the supplied secrets table is
\* not consulted.
C16_PushSinkSecrets ==
    (kind = "sink" /\ push /\ Session) =>
        /\ secret["control"] \in Minted
        /\ secret["filesystem"] \in Minted
        /\ secret["control"] # secret["filesystem"]
        /\ secret["state"] # NoSecret <=> argLive
        /\ secret["state"] # NoSecret =>
              /\ secret["state"] \in Minted
              /\ secret["state"] \notin {secret["control"], secret["filesystem"]}
        /\ live = argLive
        /\ \A r \in Roles : argSecrets[r] # NoSecret => secret[r] # argSecrets[r]
        /\ randCalls = Cardinality({r \in Roles : secret[r] # NoSecret})

\* C16 witness: a push-mode sink was given a full secrets table and the live
\* argument false; it holds two minted secrets and no state secret.
C16_Witness ==
    /\ kind = "sink"
    /\ push
    /\ pc = "constructed"
    /\ \A r \in Roles : argSecrets[r] # NoSecret
    /\ ~argLive
    /\ secret["state"] = NoSecret

\* C17: newMigrationSink in pull mode fails with the missing-secret error and
\* produces no session unless the table holds both the control and the
\* filesystem secret; a missing state secret is never a construction error.
C17_PullSinkRequiredSecrets ==
    (PullSink /\ Constructed) =>
        /\ argSecrets["control"] = NoSecret =>
              (pc = "noSession" /\ err = "ErrMissingControl")
        /\ (argSecrets["control"] # NoSecret /\ argSecrets["filesystem"] = NoSecret) =>
              (pc = "noSession" /\ err = "ErrMissingFilesystem")
        /\ (argSecrets["control"] # NoSecret /\ argSecrets["filesystem"] # NoSecret) =>
              /\ pc \in {"constructed", "noSession"} =>
                    err \in {"nil", "ErrNoLiveMigrationTarget"}
              /\ pc = "noSession" => err = "ErrNoLiveMigrationTarget"
              /\ argSecrets["state"] = NoSecret =>
                    (pc = "noSession" <=> (argLive /\ instType = "container" /\ ~criu))

\* C17 witness: a pull-mode sink was constructed from a table with the
\* control and the filesystem secret and without a state secret.
C17_Witness ==
    /\ PullSink
    /\ pc = "constructed"
    /\ argSecrets["state"] = NoSecret
    /\ ~live

\* C18: for a pull-mode sink the effective live flag equals (a state secret
\* is in the supplied table) or (the live argument is true).
C18_PullEffectiveLive ==
    (PullSink /\ Session) =>
        (live <=> (argSecrets["state"] # NoSecret \/ argLive))

\* C18 witness: a pull-mode sink is live through the live argument alone.
C18_Witness ==
    /\ PullSink
    /\ Session
    /\ argLive
    /\ argSecrets["state"] = NoSecret
    /\ live

\* C19: a pull-mode sink dials the state channel if and only if it is live
\* and the workload is a container; otherwise there is no state dial and
\* MigrateReceive is invoked with a state accessor that returns nil.
StateDialed == \E i \in 1..Len(dials) : dials[i].role = "state"

C19_PullStateDial ==
    PullSink =>
        /\ StateDialed => (live /\ instType = "container")
        /\ (pc \in {"dialState", "connected", "transferring"} \/ driverCalls # <<>>) =>
              ((StateDialed \/ pc = "dialState") <=> (live /\ instType = "container"))
        /\ (driverCalls # <<>> /\ ~(live /\ instType = "container")) =>
              /\ Len(dials) = 2
              /\ ~driverCalls[1].StateConn
        /\ (driverCalls # <<>> /\ live /\ instType = "container") =>
              /\ Len(dials) = 3
              /\ driverCalls[1].StateConn

\* C19 witness: a pull-mode sink for a virtual machine that was supplied a
\* state secret invoked MigrateReceive without a state stream.
C19_Witness ==
    /\ PullSink
    /\ instType = "vm"
    /\ secret["state"] # NoSecret
    /\ Len(driverCalls) = 1
    /\ ~driverCalls[1].StateConn
    /\ ~StateDialed

\* C20: the barrier is signalled if and only if every required role has been
\* bound, whatever the order of the bind tasks; it is never signalled while a
\* required role is unbound, and never signalled a second time.
C20_BarrierSignalledOnce ==
    (HasBarrier /\ Session) =>
        /\ signalCount <= 1
        /\ signalCount = 1 <=> (\A r \in Roles : Required(r) => bound[r])
        /\ allConnected = "signalled" <=> signalCount = 1
        /\ allConnected = "signalled" => \A r \in Roles : Required(r) => bound[r]

C20_Step ==
    signalCount' # signalCount =>
        /\ signalCount = 0
        /\ signalCount' = 1
        /\ \E r \in Roles : Required(r) /\ ~bound[r] /\ bound'[r]

C20_BarrierOrderIndependent == []C20_BarrierSignalledOnce /\ [][C20_Step]_vars

\* C20 witness: a live container session has its three required channels
\* bound and the barrier was signalled once.
C20_Witness ==
    /\ HasBarrier
    /\ live
    /\ instType = "container"
    /\ \A r \in Roles : bound[r]
    /\ signalCount = 1
    /\ allConnected = "signalled"

\* the channels are established: Do() got past the barrier or the dials
Established == pc \in {"connected", "transferring"} \/ driverCalls # <<>>

\* C23: once the channels are established, Do() (source and sink) returns an
\* error if and only if the driver callback returned an error, and that
\* error wraps the driver's error; Do() returns success only when the driver
\* callback was invoked and returned success.
C23_DoReturnsDriverError ==
    /\ (pc \in {"returning", "done"} /\ Established) =>
          /\ Len(driverCalls) = 1
          /\ driverCalls[1].ret # "pending"
          /\ err # "nil" <=> driverCalls[1].ret \in DriverErrors
          /\ Unwrap(err) = driverCalls[1].ret
          /\ err # "nil" =>
                err = IF kind = "source" THEN WrapSource(driverCalls[1].ret)
                      ELSE WrapTarget(driverCalls[1].ret)
    /\ (pc \in {"returning", "done"} /\ err = "nil") =>
          /\ Len(driverCalls) = 1
          /\ driverCalls[1].ret = "nil"

\* C23 witness: a sink's Do() has returned the wrapped ENOSPC of
\* MigrateReceive.
C23_Witness ==
    /\ kind = "sink"
    /\ pc = "done"
    /\ Len(driverCalls) = 1
    /\ driverCalls[1].ret = "ENOSPC"
    /\ err = "Failed migration on target: ENOSPC"

----------------------------------------------------------------------------
(* The session under the scheduling the runtime provides: the timer of the *)
(* select fires, a runnable Do() goes on, the driver callback returns, and *)
(* a bind task woken by the cancelled barrier runs.  Whether Do() is       *)
(* called and whether a peer connects is left open.                        *)

Fairness ==
    /\ WF_vars(SourceTimeout)
    /\ WF_vars(SourceAllConnected)
    /\ WF_vars(SourceMigrateSend)
    /\ WF_vars(SourceMigrateSendReturn)
    /\ WF_vars(SourceReturn)
    /\ WF_vars(SinkTimeout)
    /\ WF_vars(SinkAllConnected)
    /\ WF_vars(SinkDialControl)
    /\ WF_vars(SinkDialFilesystem)
    /\ WF_vars(SinkDialState)
    /\ WF_vars(SinkSendControl)
    /\ WF_vars(SinkMigrateReceive)
    /\ WF_vars(SinkMigrateReceiveReturn)
    /\ WF_vars(SinkReturn)
    /\ \A r \in Roles : WF_vars(BindCancelled(r))

SpecFair == Init /\ [][Next]_vars /\ Fairness

\* C21: when the wait times out (source or push-mode sink) the barrier is
\* cancelled, every bind attempt that is pending is eventually unblocked
\* without binding, and the session fails with the timeout error.
C21_TimeoutUnblocksPendingBinds ==
    /\ [](err = "ErrTimeout" => (HasBarrier /\ allConnected = "cancelled"))
    /\ \A r \in Roles :
          (err = "ErrTimeout" /\ bindState[r] = "pending") ~> (bindState[r] = "unblocked")
    /\ [](err = "ErrTimeout" => \A r \in Roles : bindState[r] = "bound" => bound[r])
    /\ (err = "ErrTimeout") ~> (pc = "done" /\ err = "ErrTimeout" /\ driverCalls = <<>>)

\* C21 witness: after a timeout of a push-mode sink a bind attempt that was
\* pending has been unblocked.
C21_Witness ==
    /\ kind = "sink"
    /\ push
    /\ err = "ErrTimeout"
    /\ allConnected = "cancelled"
    /\ \E r \in Roles : bindState[r] = "unblocked"

\* Do() is running
InDo == pc \in {"waiting", "dialControl", "dialFilesystem", "dialState", "sendControl",
                "connected", "transferring", "returning"}

\* C28: Do() terminates whenever the dials and the driver callback return: a
\* source or push-mode sink leaves the waiting phase by the barrier or by the
\* timer, and a pull-mode sink makes at most three dials before it invokes
\* the driver or returns.
C28_DoTerminates ==
    /\ InDo ~> (pc = "done")
    /\ (pc = "waiting") ~> (pc \in {"connected", "returning"})
    /\ [](Len(dials) <= 3)
    /\ [](PullSink /\ Len(dials) = 3 => pc \notin {"dialControl", "dialFilesystem", "dialState"})

\* C28 witness: a source that waited with no channel bound has returned.
C28_Witness ==
    /\ kind = "source"
    /\ pc = "done"
    /\ \A r \in Roles : ~bound[r]
    /\ discCalls = 0

\* the state of the session state machine a position of the session is in
Phase(p) ==
    CASE p \in {"new", "noSession"} -> "None"
      [] p = "constructed" -> "Constructed"
      [] p \in {"waiting", "dialControl", "dialFilesystem", "dialState"} -> "AwaitingChannels"
      [] p \in {"connected", "transferring"} -> "Transferring"
      [] p \in {"sendControl", "returning", "done"} -> "Closed"

\* C22: every session follows Constructed -> AwaitingChannels ->
\* Transferring -> Closed(Success|Failed): Transferring is entered only from
\* AwaitingChannels, on barrier satisfaction or after all sequential dials
\* succeeded; Closed(Failed) is entered from AwaitingChannels only on timeout
\* or dial failure; Transferring is left only when the driver callback
\* returns; nothing leaves Closed and its outcome does not change.
C22_Step ==
    LET a == Phase(pc)
        b == Phase(pc')
    IN  /\ a # b =>
              \/ a = "None" /\ b = "Constructed"
              \/ a = "Constructed" /\ b = "AwaitingChannels"
              \/ /\ a = "AwaitingChannels"
                 /\ b = "Transferring"
                 /\ IF HasBarrier
                    THEN allConnected = "signalled" /\ AllRequiredBound(conn)
                    ELSE /\ Len(dials') = IF live /\ instType = "container" THEN 3 ELSE 2
                         /\ \A i \in 1..Len(dials') : dials'[i].ok
              \/ /\ a = "AwaitingChannels"
                 /\ b = "Closed"
                 /\ driverCalls' = <<>>
                 /\ IF HasBarrier
                    THEN err' = "ErrTimeout" /\ allConnected = "open"
                    ELSE /\ ~dials'[Len(dials')].ok
                         /\ err' = DialErr(dials'[Len(dials')].role)
              \/ /\ a = "Transferring"
                 /\ b = "Closed"
                 /\ Len(driverCalls') = 1
                 /\ driverCalls[1].ret = "pending"
                 /\ driverCalls'[1].ret # "pending"
        /\ a = "Closed" => (b = "Closed" /\ err' = err)

C22_SessionStateMachine == [][C22_Step]_vars

\* C22 witness: a source went through the four states and closed with
\* success.
C22_Witness ==
    /\ kind = "source"
    /\ pc = "done"
    /\ err = "nil"
    /\ Len(driverCalls) = 1
    /\ discCalls = 1

\* C24: newMigrationSource on a running virtual machine with stateful
\* requested succeeds whatever the criu probe returns, marks the session live
\* and mints no state secret; the driver is then called with Live = TRUE and
\* a state accessor that returns nil unless a state connection was bound.
C24_LiveVMSource ==
    (kind = "source" /\ instType = "vm" /\ stateful /\ isRunning
        /\ Constructed /\ randErrAt \notin {1, 2}) =>
        /\ Session
        /\ live
        /\ ~probed
        /\ secret["state"] = NoSecret
        /\ randCalls = 2
        /\ driverCalls # <<>> =>
              /\ driverCalls[1].Live
              /\ driverCalls[1].StateConn => bound["state"]
              /\ ~bound["state"] => ~driverCalls[1].StateConn

\* C24 witness: MigrateSend was invoked for a live virtual machine on a host
\* without criu.
C24_Witness ==
    /\ kind = "source"
    /\ instType = "vm"
    /\ ~criu
    /\ Len(driverCalls) = 1
    /\ driverCalls[1].Live
    /\ ~driverCalls[1].StateConn

\* C25: a pull-mode sink has no barrier: its Do() never waits on a barrier or
\* on the timer and never returns the timeout error; before the transfer it
\* fails only on a dial.
C25_PullSinkNoBarrier ==
    (PullSink /\ Session) =>
        /\ allConnected = "none"
        /\ pc # "waiting"
        /\ err # "ErrTimeout"
        /\ signalCount = 0
        /\ bindState = Idle
        /\ (driverCalls = <<>> /\ err # "nil") =>
              /\ err \in {DialErr(r) : r \in Roles}
              /\ Len(dials) >= 1
              /\ ~dials[Len(dials)].ok

\* C25 witness: a pull-mode sink is transferring and never had a barrier.
C25_Witness ==
    /\ PullSink
    /\ pc = "transferring"
    /\ allConnected = "none"
    /\ Len(dials) = 2

\* C26: newMigrationSource with stateful requested on a workload that is not
\* running succeeds for every workload type and every probe result: the
\* session is not live, criu is not probed and no state secret is minted.
C26_StatefulNotRunningSource ==
    (kind = "source" /\ stateful /\ ~isRunning /\ Constructed /\ randErrAt \notin {1, 2}) =>
        /\ Session
        /\ err = "nil" \/ pc # "constructed"
        /\ ~live
        /\ ~probed
        /\ secret["state"] = NoSecret
        /\ randCalls = 2

\* C26 witness: a source for a stopped container was constructed with
\* stateful requested on a host without criu.
C26_Witness ==
    /\ kind = "source"
    /\ pc = "constructed"
    /\ stateful
    /\ ~isRunning
    /\ instType = "container"
    /\ ~criu

\* C27: newMigrationSink never returns the capability-missing error when the
\* effective live flag is false or the workload is not a container, whatever
\* the probe returns; a failing probe alone is never a construction error.
C27_SinkProbeAloneNeverFails ==
    (kind = "sink" /\ Constructed) =>
        /\ (pc = "noSession" /\ err = "ErrNoLiveMigrationTarget") =>
              (SinkLive /\ instType = "container" /\ ~criu)
        /\ (~criu /\ ~(SinkLive /\ instType = "container")
              /\ ~EarlierConstructionError) => Session

\* C27 witness: a sink that is not live was constructed for a container on a
\* host without criu, after the probe was consulted.
C27_Witness ==
    /\ kind = "sink"
    /\ pc = "constructed"
    /\ instType = "container"
    /\ ~criu
    /\ probed
    /\ ~live

====
